---- MODULE Spec2Model ----
(***************************************************************************)
(* Opportunity lifecycle controller of erpnext/crm/doctype/opportunity:    *)
(* the quotation predicates, the status derivation, mark-as-lost, the bulk *)
(* status update, the auto-close sweep and the validation of a document.   *)
(* The record store (frappe.db, get_doc, save) is modelled by the tables   *)
(* opp and quot and by constant master data.                               *)
(***************************************************************************)
EXTENDS Integers, Sequences, FiniteSets, TLC

VARIABLES
    opp,      \* tabOpportunity: name -> document
    quot,     \* tabQuotation and tabVehicle Quotation: name -> document
    setting,  \* Selling Settings.close_opportunity_after_days (0: unset)
    call,     \* a declare_enquiry_lost call between its check and its write
    last      \* the operation that completed last, and what it returned

vars == <<opp, quot, setting, call, last>>

(***************************************************************************)
(* Python values.  A field of a document is a string; None is a value of   *)
(* its own.  A function returns a tagged value, since has_active_quotation *)
(* returns a list, a name or None.                                         *)
(***************************************************************************)
None == "<None>"

\* bool(v) of a field value: None and the empty string are falsy.
Truthy(v) == v \notin {None, ""}

PyNone == [t |-> "none"]
PyBool(b) == [t |-> "bool", b |-> b]
PyStr(s) == IF s = None THEN PyNone ELSE [t |-> "str", s |-> s]
PyList(l) == [t |-> "list", l |-> l]

\* bool(x) of a returned value.
IsTrue(x) ==
    CASE x.t = "none" -> FALSE
      [] x.t = "bool" -> x.b
      [] x.t = "str" -> x.s # ""
      [] x.t = "list" -> x.l # <<>>

\* a or b
PyOr(a, b) == IF IsTrue(a) THEN a ELSE b

(***************************************************************************)
(* Bounds.                                                                 *)
(***************************************************************************)
MaxReasons == 2   \* longest lost_reasons table of a document
MaxList == 2      \* longest lost_reasons_list of a call
MaxNames == 2     \* longest names list of set_multiple_status
MaxAge == 20      \* oldest document, in days since it was modified
MaxItems == 2     \* most line items of a document
MaxDays == 2      \* largest configured close_opportunity_after_days

(***************************************************************************)
(* Names of the records.                                                   *)
(***************************************************************************)
Opps == {"O1", "O2"}
Quots == {"Q1", "VQ1"}
doctype(q) == IF q = "VQ1" THEN "Vehicle Quotation" ELSE "Quotation"

\* A set in some order, as a query returns its rows.
RECURSIVE SeqOf(_)
SeqOf(S) == IF S = {} THEN <<>>
            ELSE LET x == CHOOSE y \in S : TRUE IN <<x>> \o SeqOf(S \ {x})

(***************************************************************************)
(* The quotation predicates.                                               *)
(***************************************************************************)
\* The rows of one doctype.
Table(dt, db) == {q \in DOMAIN db : doctype(q) = dt}

\* frappe.db.get_value(doctype, filters): the name of a row or None.
get_value_name(rows) == IF rows = {} THEN PyNone ELSE PyStr(CHOOSE q \in rows : TRUE)

has_active_quotation_nodocstatus(name, db) ==
    LET vehicle_quotation == get_value_name({q \in Table("Vehicle Quotation", db) :
            /\ db[q].opportunity = name
            /\ db[q].status \notin {"Lost", "Closed"}})
        quotation == PyList(SeqOf({q \in Table("Quotation", db) :
            /\ db[q].opportunity = name
            /\ db[q].status \notin {"Lost", "Closed"}}))
    IN PyOr(quotation, vehicle_quotation)

has_active_quotation(name, db) ==
    LET vehicle_quotation == get_value_name({q \in Table("Vehicle Quotation", db) :
            /\ db[q].opportunity = name
            /\ db[q].docstatus = 1
            /\ db[q].status \notin {"Lost", "Closed"}})
        quotation == PyList(SeqOf({q \in Table("Quotation", db) :
            /\ db[q].opportunity = name
            /\ db[q].status \notin {"Lost", "Closed"}
            /\ db[q].docstatus = 1}))
    IN PyOr(quotation, vehicle_quotation)

has_ordered_quotation(name, db) ==
    LET vehicle_quotation == get_value_name({q \in Table("Vehicle Quotation", db) :
            /\ db[q].opportunity = name
            /\ db[q].docstatus = 1
            /\ db[q].status = "Ordered"})
        quotation == PyList(SeqOf({q \in Table("Quotation", db) :
            /\ db[q].docstatus = 1
            /\ db[q].prevdoc_docname = name
            /\ db[q].status = "Ordered"}))
    IN PyOr(quotation, vehicle_quotation)

has_lost_quotation_noprecedence(name, db) ==
    LET vehicle_quotation == get_value_name({q \in Table("Vehicle Quotation", db) :
            /\ db[q].opportunity = name
            /\ db[q].docstatus = 1
            /\ db[q].status = "Lost"})
        lost_quotation == PyList(SeqOf({q \in Table("Quotation", db) :
            /\ db[q].docstatus = 1
            /\ db[q].opportunity = name
            /\ db[q].status = "Lost"}))
    IN IF IsTrue(lost_quotation) \/ IsTrue(vehicle_quotation)
       THEN PyBool(TRUE)
       ELSE PyNone

has_lost_quotation(name, db) ==
    LET vehicle_quotation == get_value_name({q \in Table("Vehicle Quotation", db) :
            /\ db[q].opportunity = name
            /\ db[q].docstatus = 1
            /\ db[q].status = "Lost"})
        lost_quotation == PyList(SeqOf({q \in Table("Quotation", db) :
            /\ db[q].docstatus = 1
            /\ db[q].opportunity = name
            /\ db[q].status = "Lost"}))
    IN IF IsTrue(lost_quotation) \/ IsTrue(vehicle_quotation)
       THEN IF IsTrue(has_active_quotation(name, db))
            THEN PyBool(FALSE)
            ELSE PyBool(TRUE)
       ELSE PyNone

(***************************************************************************)
(* Master data: the Item, Customer, Lead and UOM records of the store.     *)
(* "I9", "C9" and "L9" name no record.                                     *)
(***************************************************************************)
Item == "I1" :> [item_name |-> "Widget", description |-> "", item_group |-> "Parts",
                 brand |-> None, stock_uom |-> "Nos", image |-> None]
Customer == "C1" :> [customer_name |-> "Acme"]
Lead == "L1" :> [lead_name |-> "Bob", company_name |-> ""]
UOM == "Nos" :> [must_be_whole_number |-> TRUE] @@ "Kg" :> [must_be_whole_number |-> FALSE]

\* frappe.db.get_value(doctype, name, fields): the row, or None when there is none.
get_value(table, name) ==
    IF name \in DOMAIN table THEN [t |-> "dict", d |-> table[name]] ELSE PyNone

(***************************************************************************)
(* validate                                                                *)
(***************************************************************************)
item_fields == <<"item_name", "description", "item_group", "brand">>

\* The inner loop of validate_item_details on one line item d, from key k on:
\* item.get(key) raises AttributeError when item is None.
RECURSIVE set_missing_values_overwrite(_, _, _)
set_missing_values_overwrite(d, item, k) ==
    IF k > Len(item_fields) THEN [d |-> d, raised |-> FALSE]
    ELSE IF item.t = "none" THEN [d |-> d, raised |-> TRUE]
    ELSE set_missing_values_overwrite([d EXCEPT ![item_fields[k]] = item.d[item_fields[k]]],
                                      item, k + 1)

RECURSIVE set_missing_values(_, _, _)
set_missing_values(d, item, k) ==
    IF k > Len(item_fields) THEN [d |-> d, raised |-> FALSE]
    ELSE LET key == item_fields[k] IN
         IF ~Truthy(d[key])
         THEN IF item.t = "none"
              THEN [d |-> d, raised |-> TRUE]
              ELSE set_missing_values([d EXCEPT ![key] = item.d[key]], item, k + 1)
         ELSE set_missing_values(d, item, k + 1)

\* The loop over self.items, from line item i on.
RECURSIVE item_loop(_, _)
item_loop(items, i) ==
    IF i > Len(items) THEN [items |-> items, raised |-> FALSE]
    ELSE IF ~Truthy(items[i].item_code) THEN item_loop(items, i + 1)
    ELSE LET r == set_missing_values(items[i], get_value(Item, items[i].item_code), 1) IN
         IF r.raised
         THEN [items |-> [items EXCEPT ![i] = r.d], raised |-> TRUE]
         ELSE item_loop([items EXCEPT ![i] = r.d], i + 1)

validate_item_details(self) ==
    IF self.items = <<>> THEN [self |-> self, raised |-> FALSE]
    ELSE LET r == item_loop(self.items, 1) IN
         [self |-> [self EXCEPT !.items = r.items], raised |-> r.raised]

\* The tuple assignment of the Lead branch raises TypeError on None.
validate_cust_name(self) ==
    IF Truthy(self.party_name) /\ self.opportunity_from = "Customer"
    THEN LET v == get_value(Customer, self.party_name) IN
         [self |-> [self EXCEPT !.customer_name =
                        IF v.t = "none" THEN None ELSE v.d.customer_name],
          raised |-> FALSE]
    ELSE IF Truthy(self.party_name) /\ self.opportunity_from = "Lead"
    THEN LET v == get_value(Lead, self.party_name) IN
         IF v.t = "none" THEN [self |-> self, raised |-> TRUE]
         ELSE [self |-> [self EXCEPT !.customer_name =
                             IF Truthy(v.d.company_name) THEN v.d.company_name
                             ELSE v.d.lead_name],
               raised |-> FALSE]
    ELSE [self |-> self, raised |-> FALSE]

\* TransactionBase.validate_uom_is_integer("uom", "qty"): a line item whose UOM
\* must be a whole number and whose qty (kept in tenths) is not one is rejected.
validate_uom_is_integer(self) ==
    [self |-> self,
     raised |-> \E i \in 1..Len(self.items) :
                   /\ self.items[i].uom \in DOMAIN UOM
                   /\ UOM[self.items[i].uom].must_be_whole_number
                   /\ self.items[i].qty % 10 # 0]

validate(self) ==
    LET a == validate_item_details(self) IN
    IF a.raised THEN a ELSE
    LET b == validate_cust_name(a.self) IN
    IF b.raised THEN b ELSE
    LET c == validate_uom_is_integer(b.self) IN
    IF c.raised THEN c ELSE
    [self |-> IF ~Truthy(c.self.title)
              THEN [c.self EXCEPT !.title = c.self.customer_name]
              ELSE c.self,
     raised |-> FALSE]

\* Document.save(): validate, then write the row; modified becomes today.
save(self, name, db) ==
    LET v == validate(self) IN
    IF v.raised THEN [db |-> db, self |-> v.self, raised |-> TRUE]
    ELSE LET d == [v.self EXCEPT !.modified = 0] IN
         [db |-> [db EXCEPT ![name] = d], self |-> d, raised |-> FALSE]

\* frappe.db.set(doc, field, value): sets the field of the document and of its row.
db_set(r, name, field, value) ==
    [db |-> [r.db EXCEPT ![name][field] = value, ![name].modified = 0],
     self |-> [r.self EXCEPT ![field] = value, !.modified = 0]]

(***************************************************************************)
(* get_item_details                                                        *)
(***************************************************************************)
\* The names the module binds, and the names get_item_details binds.
ModuleNames == {"frappe", "json", "cstr", "cint", "get_fullname", "_", "get_mapped_doc",
    "get_exchange_rate", "TransactionBase", "get_party_account_currency",
    "link_communication_to_document", "subject_field", "sender_field", "Opportunity",
    "get_item_details", "make_quotation", "make_request_for_quotation",
    "make_supplier_quotation", "set_multiple_status", "auto_close_opportunity",
    "make_opportunity_from_communication"}
LocalNames == {"item_code", "item_details"}

\* The returned dict reads the name item, which nothing binds: NameError.
get_item_details(item_code) ==
    LET item_details == IF item_code \in DOMAIN Item THEN Item[item_code]
                        ELSE [item_name |-> None, description |-> None, item_group |-> None,
                              brand |-> None, stock_uom |-> None, image |-> None]
    IN IF "item" \notin LocalNames \cup ModuleNames
       THEN [raised |-> TRUE, value |-> PyNone]
       ELSE [raised |-> FALSE, value |-> [t |-> "dict", d |-> item_details]]

(***************************************************************************)
(* Status derivation                                                       *)
(***************************************************************************)
status_map_converted_first ==
    << <<"Lost", "eval:self.status=='Lost'">>,
       <<"Lost", "has_lost_quotation">>,
       <<"Converted", "has_ordered_quotation">>,
       <<"Quotation", "has_active_quotation">>,
       <<"Closed", "eval:self.status=='Closed'">> >>

status_map ==
    << <<"Lost", "eval:self.status=='Lost'">>,
       <<"Lost", "has_lost_quotation">>,
       <<"Quotation", "has_active_quotation">>,
       <<"Converted", "has_ordered_quotation">>,
       <<"Closed", "eval:self.status=='Closed'">> >>

\* One condition of the rule list: an eval: expression on self, or a method of self.
condition(c, self, name, db) ==
    CASE c = "eval:self.status=='Lost'" -> self.status = "Lost"
      [] c = "eval:self.status=='Closed'" -> self.status = "Closed"
      [] c = "has_lost_quotation" -> IsTrue(has_lost_quotation(name, db))
      [] c = "has_active_quotation" -> IsTrue(has_active_quotation(name, db))
      [] c = "has_ordered_quotation" -> IsTrue(has_ordered_quotation(name, db))

\* The linear scan of the rule list from rule i on: the first rule that matches
\* gives the status; the status stays when none does.
RECURSIVE first_match(_, _, _, _)
first_match(i, self, name, db) ==
    IF i > Len(status_map) THEN self.status
    ELSE IF condition(status_map[i][2], self, name, db) THEN status_map[i][1]
    ELSE first_match(i + 1, self, name, db)

set_status(self, name, db) == first_match(1, self, name, db)

(***************************************************************************)
(* declare_enquiry_lost                                                    *)
(***************************************************************************)
\* active is what self.has_active_quotation() returned; db is tabOpportunity.
append_first(rows, list) == IF list = <<>> THEN rows ELSE Append(rows, Head(list))

RECURSIVE append_all(_, _)
append_all(rows, list) ==
    IF list = <<>> THEN rows ELSE append_all(Append(rows, Head(list)), Tail(list))

declare_enquiry_lost_write_first(self, name, active, lost_reasons_list, detailed_reason, db) ==
    LET a == db_set([db |-> db, self |-> self], name, "status", "Lost") IN
    IF ~IsTrue(active)
    THEN LET b == IF Truthy(detailed_reason)
                  THEN db_set(a, name, "order_lost_reason", detailed_reason)
                  ELSE a
             c == [b.self EXCEPT !.lost_reasons = append_all(@, lost_reasons_list)]
             s == save(c, name, b.db)
         IN [db |-> s.db, self |-> s.self, saves |-> 1,
             result |-> IF s.raised THEN "error" ELSE "ok"]
    ELSE [db |-> a.db, self |-> a.self, saves |-> 0, result |-> "rejected"]

declare_enquiry_lost_unchecked(self, name, active, lost_reasons_list, detailed_reason, db) ==
    LET a == db_set([db |-> db, self |-> self], name, "status", "Lost")
        b == IF Truthy(detailed_reason)
             THEN db_set(a, name, "order_lost_reason", detailed_reason)
             ELSE a
        c == [b.self EXCEPT !.lost_reasons = append_all(@, lost_reasons_list)]
        s == save(c, name, b.db)
    IN [db |-> s.db, self |-> s.self, saves |-> 1,
        result |-> IF s.raised THEN "error" ELSE "ok"]

declare_enquiry_lost(self, name, active, lost_reasons_list, detailed_reason, db) ==
    IF ~IsTrue(active)
    THEN LET a == db_set([db |-> db, self |-> self], name, "status", "Lost")
             b == IF Truthy(detailed_reason)
                  THEN db_set(a, name, "order_lost_reason", detailed_reason)
                  ELSE a
             c == [b.self EXCEPT !.lost_reasons = append_all(@, lost_reasons_list)]
             s == save(c, name, b.db)
         IN [db |-> s.db, self |-> s.self, saves |-> 1,
             result |-> IF s.raised THEN "error" ELSE "ok"]
    ELSE [db |-> db, self |-> self, saves |-> 0, result |-> "rejected"]

(***************************************************************************)
(* set_multiple_status and auto_close_opportunity                          *)
(***************************************************************************)
\* The loop of set_multiple_status from names[i] on; done counts the saves made.
\* frappe.get_doc raises when the name has no row.
RECURSIVE set_multiple_status_rollback(_, _, _, _, _)
set_multiple_status_rollback(names, status, db, i, done) ==
    IF i > Len(names) THEN [db |-> db, result |-> "ok", saves |-> done, failed |-> 0]
    ELSE IF names[i] \notin DOMAIN db
    THEN [db |-> db, result |-> "error", saves |-> done, failed |-> i]
    ELSE LET s == save([db[names[i]] EXCEPT !.status = status], names[i], db)
             r == set_multiple_status_rollback(names, status, s.db, i + 1, done + 1)
         IN IF s.raised
            THEN [db |-> db, result |-> "error", saves |-> done, failed |-> i]
            ELSE IF r.result = "error" THEN [r EXCEPT !.db = db] ELSE r

RECURSIVE set_multiple_status(_, _, _, _, _)
set_multiple_status(names, status, db, i, done) ==
    IF i > Len(names) THEN [db |-> db, result |-> "ok", saves |-> done, failed |-> 0]
    ELSE IF names[i] \notin DOMAIN db
    THEN [db |-> db, result |-> "error", saves |-> done, failed |-> i]
    ELSE LET opp_ == [db[names[i]] EXCEPT !.status = status]
             s == save(opp_, names[i], db)
         IN IF s.raised
            THEN [db |-> db, result |-> "error", saves |-> done, failed |-> i]
            ELSE set_multiple_status(names, status, s.db, i + 1, done + 1)

DefaultCloseAfterDays == 15

\* close_opportunity_after_days or 15
auto_close_after_days(days) == IF days # 0 THEN days ELSE DefaultCloseAfterDays

\* The rows the query of auto_close_opportunity selects; modified is kept as the
\* number of days from its date to CURDATE(), so modified < CURDATE() - n days
\* reads modified > n.
stale_opportunities_inclusive(days, db) ==
    {o \in DOMAIN db : db[o].status = "Replied" /\ db[o].modified >= auto_close_after_days(days)}

stale_opportunities(days, db) ==
    {o \in DOMAIN db : db[o].status = "Replied" /\ db[o].modified > auto_close_after_days(days)}

\* The loop of auto_close_opportunity over the selected rows, from opportunities[i] on.
RECURSIVE close_loop(_, _, _, _)
close_loop(opportunities, db, i, done) ==
    IF i > Len(opportunities) THEN [db |-> db, result |-> "ok", saves |-> done]
    ELSE LET doc == [db[opportunities[i]] EXCEPT !.status = "Closed"]
             s == save(doc, opportunities[i], db)
         IN IF s.raised THEN [db |-> db, result |-> "error", saves |-> done]
            ELSE close_loop(opportunities, s.db, i + 1, done + 1)

\* All orders in which a query may return the rows S.
Orders(S) == {s \in [1..Cardinality(S) -> S] : \A i, j \in 1..Cardinality(S) : s[i] = s[j] => i = j}

(***************************************************************************)
(* Documents the specifications start from.                                *)
(***************************************************************************)
LineItem(code, name, description, group, brand, uom, qty) ==
    [item_code |-> code, item_name |-> name, description |-> description,
     item_group |-> group, brand |-> brand, uom |-> uom, qty |-> qty]

Document(from, party, customer_name, items) ==
    [status |-> "Open", modified |-> 0, opportunity_from |-> from, party_name |-> party,
     customer_name |-> customer_name, title |-> customer_name, order_lost_reason |-> None,
     lost_reasons |-> <<>>, items |-> items]

\* A document that validates.
DocCustomer == Document("Customer", "C1", "Acme", <<>>)
\* A document that validate_uom_is_integer rejects: 1.5 Nos.
DocFraction == Document("Customer", "C1", "Acme",
                        <<LineItem("I1", "Widget", "", "Parts", "Own", "Nos", 15)>>)
\* A document whose Lead has no record.
DocLead == Document("Lead", "L9", "Bob", <<>>)

NoCall == [name |-> None]
Idle == [op |-> "idle"]

Reasons == {<<>>} \cup UNION {[1..n -> {"Price"}] : n \in 1..MaxList}

(***************************************************************************)
(* Spec: quotations are made, submitted, decided and cancelled by their    *)
(* own controllers while opportunities are re-derived and marked as lost.  *)
(***************************************************************************)
Init ==
    /\ opp = [o \in Opps |-> IF o = "O1" THEN DocCustomer ELSE DocFraction]
    /\ quot = [q \in {} |-> None]
    /\ setting = 0
    /\ call = NoCall
    /\ last = Idle

\* A write to a quotation: one that falls between the check and the write of a
\* pending declare_enquiry_lost is recorded in the call.
External(q, doc) ==
    /\ quot' = IF q \in DOMAIN quot THEN [quot EXCEPT ![q] = doc] ELSE quot @@ (q :> doc)
    /\ call' = IF call = NoCall THEN call ELSE [call EXCEPT !.raced = TRUE]
    /\ last' = Idle
    /\ UNCHANGED <<opp, setting>>

\* make_quotation and the insert of its result; a Vehicle Quotation is linked by
\* its opportunity field alone, and the one of the model is made for "O1".
MakeQuotation(q, o) ==
    /\ q \notin DOMAIN quot
    /\ doctype(q) = "Vehicle Quotation" => o = "O1"
    /\ External(q, [docstatus |-> 0, status |-> "Draft", opportunity |-> o,
                    prevdoc_docname |-> IF doctype(q) = "Quotation" THEN o ELSE None])

\* The user clears the opportunity field of a draft Quotation; its items keep
\* prevdoc_docname.
UnlinkQuotation(q) ==
    /\ q \in DOMAIN quot
    /\ doctype(q) = "Quotation"
    /\ quot[q].docstatus = 0
    /\ quot[q].opportunity # None
    /\ External(q, [quot[q] EXCEPT !.opportunity = None])

SubmitQuotation(q) ==
    /\ q \in DOMAIN quot
    /\ quot[q].docstatus = 0
    /\ External(q, [quot[q] EXCEPT !.docstatus = 1, !.status = "Open"])

UpdateQuotation(q, s) ==
    /\ q \in DOMAIN quot
    /\ quot[q].docstatus = 1
    /\ quot[q].status = "Open"
    /\ External(q, [quot[q] EXCEPT !.status = s])

CancelQuotation(q) ==
    /\ q \in DOMAIN quot
    /\ quot[q].docstatus = 1
    /\ External(q, [quot[q] EXCEPT !.docstatus = 2, !.status = "Cancelled"])

\* set_status(update=True) of an Opportunity, run to completion by the
\* transaction that calls it.
SetStatus(o) ==
    /\ call = NoCall
    /\ opp' = [opp EXCEPT ![o].status = set_status(opp[o], o, quot)]
    /\ last' = [op |-> "set_status", name |-> o]
    /\ UNCHANGED <<quot, setting, call>>

\* declare_enquiry_lost up to the return of has_active_quotation.
DeclareCheck(o) ==
    /\ call = NoCall
    /\ call' = [name |-> o, active |-> has_active_quotation(o, quot), raced |-> FALSE]
    /\ last' = Idle
    /\ UNCHANGED <<opp, quot, setting>>

\* The rest of declare_enquiry_lost.  Its arguments are read here for the first
\* time, so they are drawn here; the branch that throws reads neither, and is
\* taken with the empty list and no reason.
DeclareAct(lost_reasons_list, detailed_reason) ==
    /\ call # NoCall
    /\ IsTrue(call.active) => (lost_reasons_list = <<>> /\ detailed_reason = None)
    /\ Len(opp[call.name].lost_reasons) + Len(lost_reasons_list) <= MaxReasons
    /\ LET r == declare_enquiry_lost(opp[call.name], call.name, call.active,
                                     lost_reasons_list, detailed_reason, opp)
       IN /\ opp' = r.db
          /\ last' = [op |-> "declare_enquiry_lost", name |-> call.name,
                      active |-> call.active, raced |-> call.raced,
                      lost_reasons_list |-> lost_reasons_list,
                      self |-> r.self, result |-> r.result, saves |-> r.saves]
    /\ call' = NoCall
    /\ UNCHANGED <<quot, setting>>

\* "Close" of the list view: set_multiple_status with one name and "Closed".
CloseOpportunity(o) ==
    /\ call = NoCall
    /\ LET r == set_multiple_status(<<o>>, "Closed", opp, 1, 0) IN
          /\ opp' = r.db
          /\ last' = [op |-> "set_multiple_status", result |-> r.result]
    /\ UNCHANGED <<quot, setting, call>>

Next ==
    \/ \E q \in Quots, o \in Opps : MakeQuotation(q, o)
    \/ \E q \in Quots : UnlinkQuotation(q)
    \/ \E q \in Quots : SubmitQuotation(q)
    \/ \E q \in Quots, s \in {"Lost", "Closed", "Ordered"} : UpdateQuotation(q, s)
    \/ \E q \in Quots : CancelQuotation(q)
    \/ \E o \in Opps : SetStatus(o)
    \/ \E o \in Opps : CloseOpportunity(o)
    \/ \E o \in Opps : DeclareCheck(o)
    \/ \E l \in Reasons, d \in {None, "Budget"} : DeclareAct(l, d)

Spec == Init /\ [][Next]_vars

(***************************************************************************)
(* SpecBulk: set_multiple_status on documents of which some do not         *)
(* validate.  "O9" names no Opportunity.                                   *)
(***************************************************************************)
BulkDocs == {[t EXCEPT !.status = s] : t \in {DocCustomer, DocFraction, DocLead},
                                       s \in {"Open", "Replied"}}
NameLists == UNION {[1..n -> Opps \cup {"O9"}] : n \in 0..MaxNames}

InitBulk ==
    /\ opp \in [Opps -> BulkDocs]
    /\ quot = [q \in {} |-> None]
    /\ setting = 0
    /\ call = NoCall
    /\ last = Idle

SetMultipleStatus(names, status) ==
    /\ LET r == set_multiple_status(names, status, opp, 1, 0) IN
          /\ opp' = r.db
          /\ last' = [op |-> "set_multiple_status", names |-> names, status |-> status,
                      before |-> opp, result |-> r.result, saves |-> r.saves,
                      failed |-> r.failed]
    /\ UNCHANGED <<quot, setting, call>>

NextBulk ==
    \E names \in NameLists, status \in {"Open", "Replied", "Closed"} :
        SetMultipleStatus(names, status)

SpecBulk == InitBulk /\ [][NextBulk]_vars

(***************************************************************************)
(* SpecSweep: the scheduler runs auto_close_opportunity as the days pass.  *)
(***************************************************************************)
SweepDocs == {[t EXCEPT !.status = s, !.modified = a] :
                 t \in {DocCustomer, DocFraction}, s \in {"Open", "Replied"}, a \in 0..MaxAge}

InitSweep ==
    /\ opp \in [Opps -> SweepDocs]
    /\ quot = [q \in {} |-> None]
    /\ setting \in 0..MaxDays
    /\ call = NoCall
    /\ last = Idle

\* The query returns the selected rows in some order.
AutoClose(opportunities) ==
    /\ LET r == close_loop(opportunities, opp, 1, 0) IN
          /\ opp' = r.db
          /\ last' = [op |-> "auto_close_opportunity", before |-> opp,
                      result |-> r.result, saves |-> r.saves]
    /\ UNCHANGED <<quot, setting, call>>

\* CURDATE() moves on by a day.
NextDay ==
    /\ \A o \in Opps : opp[o].modified < MaxAge
    /\ opp' = [o \in Opps |-> [opp[o] EXCEPT !.modified = @ + 1]]
    /\ last' = Idle
    /\ UNCHANGED <<quot, setting, call>>

NextSweep ==
    \/ \E opportunities \in Orders(stale_opportunities(setting, opp)) : AutoClose(opportunities)
    \/ NextDay

SpecSweep == InitSweep /\ [][NextSweep]_vars

(***************************************************************************)
(* SpecValidate: one document is saved, and get_item_details is called.    *)
(***************************************************************************)
LineItems == {LineItem(code, name, description, group, brand, "Nos", 10) :
                 code \in {"", "I1", "I9"}, name \in {None, "Own"},
                 description \in {"", "Own"}, group \in {None, "Own"},
                 brand \in {None, "Own"}}
ItemLists == UNION {[1..n -> LineItems] : n \in 1..MaxItems}
ValidateDocs ==
    {Document(party[1], party[2], "", <<>>) :
        party \in {<<"Customer", "C1">>, <<"Customer", "C9">>, <<"Lead", "L1">>,
                   <<"Lead", "L9">>}}
    \cup {Document("Customer", "C1", "", items) : items \in ItemLists}

InitValidate ==
    /\ opp \in [{"O1"} -> ValidateDocs]
    /\ quot = [q \in {} |-> None]
    /\ setting = 0
    /\ call = NoCall
    /\ last = Idle

Save(o) ==
    /\ LET s == save(opp[o], o, opp) IN
          /\ opp' = s.db
          /\ last' = [op |-> "save", name |-> o, before |-> opp[o], self |-> s.self,
                      result |-> IF s.raised THEN "error" ELSE "ok"]
    /\ UNCHANGED <<quot, setting, call>>

GetItemDetails(item_code) ==
    /\ LET r == get_item_details(item_code) IN
          last' = [op |-> "get_item_details", item_code |-> item_code,
                   result |-> IF r.raised THEN "error" ELSE "ok", value |-> r.value]
    /\ UNCHANGED <<opp, quot, setting, call>>

NextValidate ==
    \/ \E o \in DOMAIN opp : Save(o)
    \/ \E item_code \in {"I1", "I9"} : GetItemDetails(item_code)

SpecValidate == InitValidate /\ [][NextValidate]_vars

(***************************************************************************)
(* Properties                                                              *)
(***************************************************************************)
\* What the claims call a lost and an active quotation of Opportunity o.
LostQuotationExists(o) ==
    \E q \in DOMAIN quot : /\ quot[q].opportunity = o
                           /\ quot[q].docstatus = 1
                           /\ quot[q].status = "Lost"
ActiveQuotationExists(o) ==
    \E q \in DOMAIN quot : /\ doctype(q) \in {"Quotation", "Vehicle Quotation"}
                           /\ quot[q].opportunity = o
                           /\ quot[q].docstatus = 1
                           /\ quot[q].status \notin {"Lost", "Closed"}

\* C1: a declare_enquiry_lost call whose has_active_quotation was truthy is
\* rejected.  One whose has_active_quotation was falsy is not rejected: it leaves
\* the document and its row with status "Lost" and the document's lost_reasons
\* longer by the length of lost_reasons_list, and the row's lost_reasons is the
\* document's once the save has gone through.
DeclareLostContract ==
    [][last'.op = "declare_enquiry_lost" =>
        LET o == last'.name IN
        /\ IsTrue(last'.active) => last'.result = "rejected"
        /\ ~IsTrue(last'.active) =>
              /\ last'.result # "rejected"
              /\ last'.self.status = "Lost"
              /\ opp'[o].status = "Lost"
              /\ Len(last'.self.lost_reasons)
                    = Len(opp[o].lost_reasons) + Len(last'.lost_reasons_list)
              /\ last'.result = "ok" => opp'[o].lost_reasons = last'.self.lost_reasons]_vars

DeclareLostAccepted ==
    /\ last.op = "declare_enquiry_lost"
    /\ last.result = "ok"
    /\ Len(last.lost_reasons_list) = 2
    /\ opp[last.name].status = "Lost"
    /\ Len(opp[last.name].lost_reasons) = 2

\* C2: when a submitted Lost quotation and an active quotation are linked to the
\* same Opportunity, has_lost_quotation returns False; it returns True only when
\* a lost quotation and no active one exists; has_lost_quotation and
\* has_active_quotation are never both truthy.
LostPrecedence ==
    \A o \in Opps :
        /\ (LostQuotationExists(o) /\ ActiveQuotationExists(o))
              => has_lost_quotation(o, quot) = PyBool(FALSE)
        /\ has_lost_quotation(o, quot) = PyBool(TRUE)
              => (LostQuotationExists(o) /\ ~ActiveQuotationExists(o))
        /\ ~(IsTrue(has_lost_quotation(o, quot)) /\ IsTrue(has_active_quotation(o, quot)))

LostAndActiveTogether ==
    \E o \in Opps : /\ LostQuotationExists(o)
                    /\ ActiveQuotationExists(o)
                    /\ has_lost_quotation(o, quot) = PyBool(FALSE)

\* C3: has_active_quotation is truthy exactly for an Opportunity that has a
\* submitted Quotation or Vehicle Quotation linked through the opportunity field
\* with a status other than Lost and Closed.
ActiveQuotationExactly ==
    \A o \in Opps : IsTrue(has_active_quotation(o, quot)) <=> ActiveQuotationExists(o)

ActiveAmongInactive ==
    /\ IsTrue(has_active_quotation("O1", quot))
    /\ ~IsTrue(has_active_quotation("O2", quot))
    /\ "Q1" \in DOMAIN quot /\ quot["Q1"].opportunity = "O1" /\ quot["Q1"].docstatus = 2
    /\ "VQ1" \in DOMAIN quot /\ quot["VQ1"].opportunity = "O1" /\ quot["VQ1"].docstatus = 1

\* C5: the status set_status derives is the target of the first rule that holds,
\* in the order Lost (status is Lost), Lost (has_lost_quotation), Quotation
\* (has_active_quotation), Converted (has_ordered_quotation), Closed (status is
\* Closed).
StatusFirstMatch ==
    [][last'.op = "set_status" =>
        LET o == last'.name
            lost == IsTrue(has_lost_quotation(o, quot))
            active == IsTrue(has_active_quotation(o, quot))
            ordered == IsTrue(has_ordered_quotation(o, quot))
        IN /\ opp[o].status = "Lost" => opp'[o].status = "Lost"
           /\ (opp[o].status # "Lost" /\ lost) => opp'[o].status = "Lost"
           /\ (opp[o].status # "Lost" /\ ~lost /\ active) => opp'[o].status = "Quotation"
           /\ (opp[o].status # "Lost" /\ ~lost /\ ~active /\ ordered)
                 => opp'[o].status = "Converted"
           /\ (opp[o].status = "Closed" /\ ~lost /\ ~active /\ ~ordered)
                 => opp'[o].status = "Closed"]_vars

QuotationBeforeConverted ==
    /\ last.op = "set_status"
    /\ opp[last.name].status = "Quotation"
    /\ IsTrue(has_active_quotation(last.name, quot))
    /\ IsTrue(has_ordered_quotation(last.name, quot))

\* C9: a declare_enquiry_lost that was not rejected, and between whose check and
\* write no quotation was written, leaves no active quotation beside the Lost
\* Opportunity; with such a write in between, the state is reached.
NoRaceNoLostWithActive ==
    (/\ last.op = "declare_enquiry_lost"
     /\ last.result # "rejected"
     /\ ~last.raced)
        => ~ActiveQuotationExists(last.name)

LostWithActiveAfterRace ==
    /\ last.op = "declare_enquiry_lost"
    /\ last.result = "ok"
    /\ last.raced
    /\ opp[last.name].status = "Lost"
    /\ ActiveQuotationExists(last.name)

\* C10: a rejected declare_enquiry_lost leaves tabOpportunity and the document
\* as they were and saves nothing.
RejectedLeavesUnchanged ==
    [][(last'.op = "declare_enquiry_lost" /\ last'.result = "rejected") =>
        /\ opp' = opp
        /\ last'.self = opp[last'.name]
        /\ last'.saves = 0]_vars

DeclareLostRejected ==
    /\ last.op = "declare_enquiry_lost"
    /\ last.result = "rejected"
    /\ ActiveQuotationExists(last.name)
    /\ opp[last.name].status = "Quotation"

\* C8: set_multiple_status saves the named documents one by one in list order;
\* when a load or a save fails, the documents before it in the list keep the
\* status written to them, and no other row is changed.
BulkKeepsEarlierSaves ==
    last.op = "set_multiple_status" =>
        LET k == IF last.result = "ok" THEN Len(last.names) ELSE last.failed - 1
            saved == {last.names[i] : i \in 1..k}
        IN /\ last.saves = k
           /\ \A o \in saved : opp[o].status = last.status
           /\ \A o \in Opps \ saved : opp[o] = last.before[o]
           /\ last.result = "error" =>
                 \/ last.names[last.failed] \notin Opps
                 \/ validate([last.before[last.names[last.failed]]
                                 EXCEPT !.status = last.status]).raised

BulkFailsAfterASave ==
    /\ last.op = "set_multiple_status"
    /\ last.result = "error"
    /\ last.failed = 2
    /\ last.names[2] \in Opps
    /\ last.before[last.names[1]].status # last.status
    /\ opp[last.names[1]].status = last.status

BackfillKeepsAndRepeats ==
    last.op = "save" =>
        /\ Len(last.self.items) = Len(last.before.items)
        /\ \A i \in 1..Len(last.before.items), k \in 1..Len(item_fields) :
              Truthy(last.before.items[i][item_fields[k]])
                 => last.self.items[i][item_fields[k]] = last.before.items[i][item_fields[k]]
        /\ validate_item_details(last.self).self = last.self
        /\ validate(last.self).self = last.self

BackfillFillsAndKeeps ==
    /\ last.op = "save"
    /\ last.result = "ok"
    /\ \E i \in 1..Len(last.before.items) :
          /\ last.before.items[i].item_name = "Own"
          /\ last.before.items[i].item_group = None
          /\ last.self.items[i].item_name = "Own"
          /\ last.self.items[i].item_group = "Parts"

\* C7: a lookup of a record that does not exist raises nothing and gives falsy
\* values: get_item_details of an item_code without Item, validate_item_details
\* of a line item without Item, validate_cust_name of a party without Customer
\* or Lead.
MissingRecordsAreFalsy ==
    /\ (last.op = "get_item_details" /\ last.item_code \notin DOMAIN Item)
          => /\ last.result = "ok"
             /\ \A f \in {"item_name", "description", "item_group", "brand"} :
                   ~Truthy(last.value.d[f])
    /\ (/\ last.op = "save"
        /\ \E i \in 1..Len(last.before.items) :
              /\ Truthy(last.before.items[i].item_code)
              /\ last.before.items[i].item_code \notin DOMAIN Item)
          => ~validate_item_details(last.before).raised
    /\ (/\ last.op = "save"
        /\ Truthy(last.before.party_name)
        /\ last.before.party_name \notin
              (IF last.before.opportunity_from = "Customer" THEN DOMAIN Customer
               ELSE DOMAIN Lead))
          => /\ ~validate_cust_name(last.before).raised
             /\ ~Truthy(validate_cust_name(last.before).self.customer_name)

====
